---- MODULE Spec2Model ----
(***************************************************************************)
(* A model of the resilience layer of fhevm-sdk: the TransactionQueue of   *)
(* packages/core/src/advanced/TransactionQueue.ts, the CircuitBreaker of   *)
(* the retry utilities, and the EncryptionCache and OperationBatcher of    *)
(* packages/core/src/advanced.  Every action is one run of JavaScript code *)
(* between two suspension points of the event loop: a public method call,  *)
(* a timer callback, or the continuation of an awaited promise.            *)
(*                                                                         *)
(* Timers: the rate-limit sleep of processQueue is timed by the clock; the *)
(* backoff sleep of retry and the 100 ms interval of waitForTransaction    *)
(* fire at an unspecified later step.  Not modelled: executeQueue(), which *)
(* the documented interface (enqueue, getQueueStatus, cancelTransaction,   *)
(* clear) does not include, and the .catch callback of processQueue lines  *)
(* 296-299, which cannot run (executeTransaction never rejects and the     *)
(* .then callback never throws).                                           *)
(*                                                                         *)
(* EncryptionCache: every public method but getStats(), which only reads.  *)
(* Keys are strings over a two-letter alphabet and the patterns given to   *)
(* invalidate() are literals, as strings or as RegExp objects with or      *)
(* without the g flag.  OperationBatcher: add(), clear(), the timeout and  *)
(* setImmediate callbacks, the outcomes of the processor and one flush()   *)
(* call at a time.  A continuation of flush() is a microtask: while one is *)
(* pending no timeout or setImmediate callback runs.                       *)
(*                                                                         *)
(* retry: one call of the config form and one call of the positional form  *)
(* of the retry utilities, from the call to its return or throw.  Delays   *)
(* are whole milliseconds; a sleep ends when it is due and fn takes no     *)
(* time.  shouldRetry and onRetry are callbacks that return normally.      *)
(***************************************************************************)
EXTENDS Integers, Sequences, FiniteSets, TLC

\* ---------------------------------------------------------------- bounds

NumItems == 5          \* request ids are 1..NumItems
MixedItems == 3        \* requests enqueued in a behaviour of SpecTQ
MaxPriority == 1       \* priorities are drawn from 0..MaxPriority
MaxRetriesBound == 1   \* maxRetries of a request is drawn from 0..MaxRetriesBound
MaxConcurrentBound == 2 \* maxConcurrent is drawn from 1..MaxConcurrentBound
MaxRateLimit == 1      \* rateLimit is drawn from 0..MaxRateLimit
MaxCalls == 4          \* execute() calls made on the breaker in one behaviour
MaxFailureThreshold == 2 \* failureThreshold is drawn from 1..MaxFailureThreshold
MaxResetTimeout == 2   \* resetTimeout is drawn from 0..MaxResetTimeout
CBMaxTime == 7         \* the breaker's clock stops advancing here
MaxCacheSize == 2      \* the cache's maxSize is drawn from 0..MaxCacheSize
MaxTTL == 0            \* TTLs are drawn from 0..MaxTTL
NumValues == 2         \* cached values are 1..NumValues
KeyLen == 2            \* cache keys are the strings of KeyLen characters
MaxLookups == 2        \* get() and has() calls counted between two clear() calls
CacheTicks == 1        \* milliseconds the cache's clock advances in one behaviour
NumAdds == 4           \* add() calls made on the batcher in one behaviour
MaxBatchBound == 3     \* maxBatchSize is drawn from 1..MaxBatchBound
MaxMinBatch == 2       \* minBatchSize is drawn from 1..MaxMinBatch
MaxWait == 1           \* maxWaitTime is drawn from 0..MaxWait
BatchTicks == 2        \* milliseconds the batcher's clock advances in one behaviour
MaxImmediates == 2     \* setImmediate callbacks of the batcher pending at one time
MaxAttemptsBound == 3  \* maxAttempts of retry(fn, config) is drawn from 0..MaxAttemptsBound
DelayStep == 10        \* initialDelay and maxDelay are multiples of DelayStep
MaxInitialDelaySteps == 1 \* initialDelay is drawn from DelayStep * (0..MaxInitialDelaySteps)
MaxDelaySteps == 2     \* maxDelay is drawn from DelayStep * (1..MaxDelaySteps)
MaxMultiplier == 2     \* backoffMultiplier is drawn from 1..MaxMultiplier
MaxBackoffRetries == 2 \* maxRetries of retry(fn, maxRetries, baseDelay): 0..MaxBackoffRetries
MaxBaseDelay == 2      \* baseDelay is drawn from 0..MaxBaseDelay
TimeoutStep == 5       \* timeoutMs of retryWithTimeout is a multiple of TimeoutStep
MaxTimeoutSteps == 3   \* timeoutMs is drawn from TimeoutStep * (0..MaxTimeoutSteps)
FnStep == 5            \* a pending fn() lets the clock advance by FnStep at a time
MaxRaceTime == 20      \* ... as long as the clock stays within MaxRaceTime

\* Date.now() when the object is constructed: far beyond any rateLimit, so that the
\* first dispatch (lastExecutionTime = 0) never sleeps.
Epoch == MaxRateLimit + 1

Ids == 1..NumItems

VARIABLES
  now,                 \* Date.now()
  \* --- TransactionQueue
  maxConcurrent,       \* this.maxConcurrent
  rateLimit,           \* this.rateLimit
  queue,               \* this.queue: the ids of the pending requests, in list order
  processing,          \* this.processing
  completed,           \* this.completed
  failed,              \* this.failed
  isProcessingQueue,   \* this.isProcessingQueue
  lastExecutionTime,   \* this.lastExecutionTime
  tx,                  \* per request: its fields and where its execution stands
  enqResult,           \* per request: what the promise returned by enqueue() resolved with
  burst,               \* TRUE while nothing but enqueue() calls has happened
  \* --- CircuitBreaker
  failureThreshold,    \* this.config.failureThreshold
  resetTimeout,        \* this.config.resetTimeout
  cbState,             \* this.state
  failureCount,        \* this.failureCount
  lastFailureTime,     \* this.lastFailureTime
  cbCall,              \* per execute() call: where it stands
  cbEntry,             \* per execute() call: this.state as the call found it (line 599)
  \* --- EncryptionCache
  maxSize,             \* this.maxSize
  defaultTTL,          \* this.defaultTTL (NoTTL: undefined)
  cache,               \* this.cache: the entries of the Map, in its iteration order
  hits,                \* this.hits
  misses,              \* this.misses
  lastSet,             \* per key: the arguments and time of the set() that made its entry
  lookups,             \* get() and has() calls made since the last clear()
  cacheRet,            \* the cache call just made: its name, key, return value and
                       \* the number of entries it removed
  \* --- OperationBatcher
  maxBatchSize,        \* this.config.maxBatchSize
  maxWaitTime,         \* this.config.maxWaitTime
  minBatchSize,        \* this.config.minBatchSize
  batchQueue,          \* this.queue: the queued items (numbers of add() calls), in order
  timer,               \* this.timer: whether it holds a handle, whether that timeout is
                       \* still to fire, and when it is due
  isProcessing,        \* this.isProcessing
  batch,               \* the batch handed to the processor and not yet settled
  immediates,          \* setImmediate callbacks scheduled by line 158 and not yet run
  item,                \* per add() call: the state of the promise it returned
  invocations,         \* the batches the processor was called with, in order
  bStep,               \* the batcher step just taken: its name and, when the
                       \* processor returned, the array it returned
  flush                \* where the flush() call stands: "idle" (none made), "awaiting"
                       \* (the processBatch() it called has a batch in flight),
                       \* "looping" (its continuation is a pending microtask), "resolved"
  ,
  \* --- retry
  cfg,                 \* the arguments of the retry call, with the defaults filled in
  attempt,             \* attempt
  lastError,           \* lastError
  startTime,           \* startTime
  wakeAt,              \* when the timeout of the backoff sleep is due
  retryPc,             \* where the call stands: "idle" (not made), "calling" (fn is
                       \* awaited), "sleeping", "returned", "thrown"
  events,              \* what the call did so far: the calls of fn, shouldRetry and
                       \* onRetry and the sleeps, in order
  retryOutcome         \* what the call returned or threw
  ,
  \* --- retryWithTimeout
  timeoutMs,           \* timeoutMs
  timeoutAt,           \* when the timeout of line 572 is due
  raceTimer            \* that timeout: "none" (not set), "live", "won" (it fired
                       \* before retry() settled), "lost" (it fired after)

tqVars == <<maxConcurrent, rateLimit, queue, processing, completed, failed,
            isProcessingQueue, lastExecutionTime, tx, enqResult, burst>>

cbVars == <<failureThreshold, resetTimeout, cbState, failureCount,
            lastFailureTime, cbCall, cbEntry>>

cacheVars == <<maxSize, defaultTTL, cache, hits, misses, lastSet, lookups,
               cacheRet>>

batcherVars == <<maxBatchSize, maxWaitTime, minBatchSize, batchQueue, timer,
                 isProcessing, batch, immediates, item, invocations, bStep, flush>>

retryVars == <<cfg, attempt, lastError, startTime, wakeAt, retryPc, events,
               retryOutcome>>

raceVars == <<timeoutMs, timeoutAt, raceTimer>>

vars == <<now, tqVars, cbVars, cacheVars, batcherVars, retryVars, raceVars>>

\* What an action of one component leaves alone: the other components.
nonTQ == <<cbVars, cacheVars, batcherVars, retryVars, raceVars>>
nonCB == <<tqVars, cacheVars, batcherVars, retryVars, raceVars>>
nonCache == <<tqVars, cbVars, batcherVars, retryVars, raceVars>>
nonBatcher == <<tqVars, cbVars, cacheVars, retryVars, raceVars>>
nonRetry == <<tqVars, cbVars, cacheVars, batcherVars, raceVars>>
nonRace == <<tqVars, cbVars, cacheVars, batcherVars>>

\* ------------------------------------------------------- TransactionQueue

\* A TransactionResult that has not been produced yet.
NoResult == [done |-> FALSE, success |-> FALSE, attempts |-> 0]

\* A request that enqueue() has not seen yet.
NewTx == [st |-> "new", priority |-> 0, maxRetries |-> 0, attempt |-> 0,
          calls |-> 0, wakeAt |-> 0, res |-> NoResult, sawClear |-> FALSE]

\* The fields of the object that processQueue reads and writes.
Machine == [queue |-> queue, processing |-> processing,
            lastExecutionTime |-> lastExecutionTime,
            isProcessingQueue |-> isProcessingQueue, tx |-> tx]

\* Array.prototype.sort with (a, b) => b.priority - a.priority: a stable sort,
\* higher priority first (insertion of each element behind its equals).
RECURSIVE InsertSorted(_, _, _)
InsertSorted(sorted, id, t) ==
  IF sorted = << >> THEN <<id>>
  ELSE IF t[Head(sorted)].priority >= t[id].priority
       THEN <<Head(sorted)>> \o InsertSorted(Tail(sorted), id, t)
       ELSE <<id>> \o sorted

\* A pending list left in arrival order.
Unsorted(q, t) == q

RECURSIVE SortByPriority(_, _)
SortByPriority(q, t) ==
  IF q = << >> THEN << >>
  ELSE InsertSorted(SortByPriority(SubSeq(q, 1, Len(q) - 1), t), q[Len(q)], t)

\* queue.findIndex(req => req.id === id), 0 for -1
RECURSIVE FindIndex(_, _, _)
FindIndex(q, id, k) ==
  IF k > Len(q) THEN 0
  ELSE IF q[k] = id THEN k ELSE FindIndex(q, id, k + 1)

\* queue.splice(index, 1)
Splice(q, index) == SubSeq(q, 1, index - 1) \o SubSeq(q, index + 1, Len(q))

\* processQueue lines 285-289: the request is dispatched; executeTransaction and
\* retry run synchronously up to the first call of request.execute.
StartExecution(m, id) ==
  [m EXCEPT !.processing = @ + 1,
            !.lastExecutionTime = now,
            !.tx[id].st = "running",
            !.tx[id].attempt = 0,
            !.tx[id].calls = 1,
            !.tx[id].wakeAt = 0]

\* processQueue lines 273-304, from the loop test on, until the coroutine ends or
\* suspends in the rate-limit sleep holding the request it has shifted.
RECURSIVE ProcessLoop(_)
ProcessLoop(m) ==
  IF Len(m.queue) > 0 /\ m.processing < maxConcurrent
  THEN LET id == Head(m.queue)
           m1 == [m EXCEPT !.queue = Tail(m.queue)]
           timeSinceLastExecution == now - m.lastExecutionTime
       IN IF rateLimit > 0 /\ timeSinceLastExecution < rateLimit
          THEN [m1 EXCEPT !.tx[id].st = "waiting",
                          !.tx[id].wakeAt = now + (rateLimit - timeSinceLastExecution)]
          ELSE ProcessLoop(StartExecution(m1, id))
  ELSE IF Len(m.queue) = 0 /\ m.processing = 0
       THEN [m EXCEPT !.isProcessingQueue = FALSE]
       ELSE m

\* processQueue, called: line 271, then the loop.
ProcessQueue(m) == ProcessLoop([m EXCEPT !.isProcessingQueue = TRUE])

\* The machine's fields written back to the variables.
Install(m) ==
  /\ queue' = m.queue
  /\ processing' = m.processing
  /\ lastExecutionTime' = m.lastExecutionTime
  /\ isProcessingQueue' = m.isProcessingQueue
  /\ tx' = m.tx

\* The id enqueue() is called with next: ids are unique and used in order.
NextId == Cardinality({i \in Ids : tx[i].st # "new"}) + 1

\* enqueue(request): push, sort, start processQueue unless the flag is set, and
\* register the poller of waitForTransaction.
Enqueue(p, r) ==
  /\ NextId \in Ids
  /\ LET id == NextId
         t1 == [tx EXCEPT ![id].st = "pending", ![id].priority = p,
                          ![id].maxRetries = r]
         m1 == [Machine EXCEPT !.tx = t1,
                               !.queue = SortByPriority(Append(queue, id), t1)]
     IN Install(IF ~isProcessingQueue THEN ProcessQueue(m1) ELSE m1)
  /\ UNCHANGED <<now, maxConcurrent, rateLimit, completed, failed, enqResult, burst>>
  /\ UNCHANGED nonTQ

\* The rate-limit sleep of a processQueue coroutine ends (line 281): it dispatches
\* the request it holds and goes round its loop again.
WakeFromRateLimit(id) ==
  /\ tx[id].st = "waiting"
  /\ now >= tx[id].wakeAt
  /\ Install(ProcessLoop(StartExecution(Machine, id)))
  /\ burst' = FALSE
  /\ UNCHANGED <<now, maxConcurrent, rateLimit, completed, failed, enqResult>>
  /\ UNCHANGED nonTQ

\* executeTransaction lines 321-330 and 332-340: the result it returns.
ExecuteTransactionResult(t, success) ==
  IF success THEN [done |-> TRUE, success |-> TRUE, attempts |-> 1]
  ELSE [done |-> TRUE, success |-> FALSE, attempts |-> t.maxRetries + 1]

\* request.execute settles. On success retry returns; on failure retry sleeps before
\* the next attempt while attempt < maxRetries, else it throws. When retry has
\* returned or thrown, executeTransaction counts the outcome and returns its result.
ExecuteSettles(id, success) ==
  /\ tx[id].st = "running"
  /\ IF success \/ tx[id].attempt >= tx[id].maxRetries
     THEN /\ tx' = [tx EXCEPT ![id].st = "settled",
                              ![id].res = ExecuteTransactionResult(tx[id], success)]
          /\ completed' = IF success THEN completed + 1 ELSE completed
          /\ failed' = IF success THEN failed ELSE failed + 1
     ELSE /\ tx' = [tx EXCEPT ![id].st = "backoff"]
          /\ UNCHANGED <<completed, failed>>
  /\ burst' = FALSE
  /\ UNCHANGED <<now, maxConcurrent, rateLimit, queue, processing,
                 isProcessingQueue, lastExecutionTime, enqResult>>
  /\ UNCHANGED nonTQ

\* The backoff sleep of retry ends: the loop's next attempt calls request.execute.
RetryAttempt(id) ==
  /\ tx[id].st = "backoff"
  /\ tx' = [tx EXCEPT ![id].st = "running", ![id].attempt = @ + 1,
                      ![id].calls = @ + 1]
  /\ burst' = FALSE
  /\ UNCHANGED <<now, maxConcurrent, rateLimit, queue, processing, completed,
                 failed, isProcessingQueue, lastExecutionTime, enqResult>>
  /\ UNCHANGED nonTQ

\* The .then callback of processQueue lines 290-295.
AfterExecution(id) ==
  /\ tx[id].st = "settled"
  /\ LET m1 == [Machine EXCEPT !.processing = @ - 1, !.tx[id].st = "finished"]
     IN Install(IF Len(m1.queue) > 0 THEN ProcessQueue(m1) ELSE m1)
  /\ burst' = FALSE
  /\ UNCHANGED <<now, maxConcurrent, rateLimit, completed, failed, enqResult>>
  /\ UNCHANGED nonTQ

\* What cancelTransaction(id) returns in the current state.
CancelReturns(id) == FindIndex(queue, id, 1) # 0

\* cancelTransaction(id)
CancelTransaction(id) ==
  /\ IF CancelReturns(id)
     THEN /\ queue' = Splice(queue, FindIndex(queue, id, 1))
          /\ tx' = [tx EXCEPT ![id].st = "cancelled"]
     ELSE UNCHANGED <<queue, tx>>
  /\ burst' = FALSE
  /\ UNCHANGED <<now, maxConcurrent, rateLimit, processing, completed, failed,
                 isProcessingQueue, lastExecutionTime, enqResult>>
  /\ UNCHANGED nonTQ

\* clear()
Clear ==
  /\ queue' = << >>
  /\ tx' = [i \in Ids |->
              IF tx[i].st = "pending" THEN [tx[i] EXCEPT !.st = "cleared"]
              ELSE IF tx[i].st = "waiting" THEN [tx[i] EXCEPT !.sawClear = TRUE]
              ELSE tx[i]]
  /\ burst' = FALSE
  /\ UNCHANGED <<now, maxConcurrent, rateLimit, processing, completed, failed,
                 isProcessingQueue, lastExecutionTime, enqResult>>
  /\ UNCHANGED nonTQ

\* One firing of the interval of waitForTransaction(id) that finds its condition
\* true and resolves the promise of enqueue(); firings that find it false change
\* nothing.
WaitForTransactionResolves(id) ==
  /\ tx[id].st # "new"
  /\ ~enqResult[id].done
  /\ FindIndex(queue, id, 1) = 0
  /\ processing = 0
  /\ enqResult' = [enqResult EXCEPT ![id] =
                     [done |-> TRUE, success |-> TRUE, attempts |-> 1]]
  /\ burst' = FALSE
  /\ UNCHANGED <<now, maxConcurrent, rateLimit, queue, processing, completed,
                 failed, isProcessingQueue, lastExecutionTime, tx>>
  /\ UNCHANGED nonTQ

\* Time passes. The code reads the clock only as Date.now() - lastExecutionTime,
\* compared with rateLimit, and every sleeper wakes no later than
\* lastExecutionTime + rateLimit: instants beyond that one all behave like it,
\* and the clock is not advanced past it.
Tick ==
  /\ now - lastExecutionTime < rateLimit
  /\ now' = now + 1
  /\ burst' = FALSE
  /\ UNCHANGED <<maxConcurrent, rateLimit, queue, processing, completed, failed,
                 isProcessingQueue, lastExecutionTime, tx, enqResult>>
  /\ UNCHANGED nonTQ

\* --------------------------------------------------------- CircuitBreaker

\* Date.now() when the breaker is constructed: far beyond any resetTimeout.
CBEpoch == MaxResetTimeout + 1

Calls == 1..MaxCalls

\* The execute() call made next: calls are numbered in the order they are made.
NextCall == Cardinality({c \in Calls : cbCall[c] # "idle"}) + 1

\* The comparison of execute line 600 with >= for >: the breaker would let a call
\* through at the very instant resetTimeout has elapsed.
ResetTimeoutElapsedAtOrAfter == now - lastFailureTime >= resetTimeout

\* execute line 600: Date.now() - this.lastFailureTime > this.config.resetTimeout
ResetTimeoutElapsed == now - lastFailureTime > resetTimeout

\* Calls whose wrapped function has been invoked.
Invoked == {c \in Calls : cbCall[c] \in {"inflight", "returned", "threw"}}

\* execute(fn), up to its await of fn(): in the open state the call either moves
\* the breaker to half-open or throws 'Circuit breaker is open'; otherwise fn is
\* invoked.
Execute(c) ==
  /\ c = NextCall
  /\ IF cbState = "open" /\ ~ResetTimeoutElapsed
     THEN /\ cbCall' = [cbCall EXCEPT ![c] = "rejected"]
          /\ UNCHANGED cbState
     ELSE /\ cbCall' = [cbCall EXCEPT ![c] = "inflight"]
          /\ cbState' = IF cbState = "open" THEN "half-open" ELSE cbState
  /\ cbEntry' = [cbEntry EXCEPT ![c] = cbState]
  /\ UNCHANGED <<now, failureThreshold, resetTimeout, failureCount, lastFailureTime>>
  /\ UNCHANGED nonCB

\* A success resetting the failure count in the closed state too.
StateIsNotOpen == cbState # "open"

\* A success resetting the breaker whenever it is not closed.
StateIsNotClosed == cbState # "closed"

\* execute line 610: this.state === 'half-open'
StateIsHalfOpen == cbState = "half-open"

\* fn() resolves: lines 609-613, reset() when the state is half-open at that moment.
FnResolves(c) ==
  /\ cbCall[c] = "inflight"
  /\ cbCall' = [cbCall EXCEPT ![c] = "returned"]
  /\ IF StateIsHalfOpen
     THEN /\ failureCount' = 0
          /\ lastFailureTime' = 0
          /\ cbState' = "closed"
     ELSE UNCHANGED <<failureCount, lastFailureTime, cbState>>
  /\ UNCHANGED <<now, failureThreshold, resetTimeout, cbEntry>>
  /\ UNCHANGED nonCB

\* A breaker that trips one failure late.
ThresholdExceeded(n) == n > failureThreshold

\* recordFailure line 625: this.failureCount >= this.config.failureThreshold
ThresholdReached(n) == n >= failureThreshold

\* fn() rejects or throws: recordFailure(), and the error is rethrown.
FnRejects(c) ==
  /\ cbCall[c] = "inflight"
  /\ cbCall' = [cbCall EXCEPT ![c] = "threw"]
  /\ failureCount' = failureCount + 1
  /\ lastFailureTime' = now
  /\ cbState' = IF ThresholdReached(failureCount + 1) THEN "open" ELSE cbState
  /\ UNCHANGED <<now, failureThreshold, resetTimeout, cbEntry>>
  /\ UNCHANGED nonCB

\* forceOpen()
ForceOpen ==
  /\ cbState' = "open"
  /\ lastFailureTime' = now
  /\ UNCHANGED <<now, failureThreshold, resetTimeout, failureCount, cbCall, cbEntry>>
  /\ UNCHANGED nonCB

\* forceReset(): reset()
ForceReset ==
  /\ failureCount' = 0
  /\ lastFailureTime' = 0
  /\ cbState' = "closed"
  /\ UNCHANGED <<now, failureThreshold, resetTimeout, cbCall, cbEntry>>
  /\ UNCHANGED nonCB

\* Time passes.
CBTick ==
  /\ now < CBMaxTime
  /\ now' = now + 1
  /\ UNCHANGED cbVars
  /\ UNCHANGED nonCB

\* ---------------------------------------------------------- EncryptionCache

NoTTL == 0 - 1         \* ttl: undefined
Null == 0              \* the null that get() returns; cached values are 1..NumValues

\* Date.now() when the cache is constructed
CacheEpoch == MaxTTL + 1
CacheMaxTime == CacheEpoch + CacheTicks

Chars == {"a", "b"}
Keys == [1..KeyLen -> Chars]
Patterns == UNION {[1..n -> Chars] : n \in 1..KeyLen}
Values == 1..NumValues
TTLs == {NoTTL} \cup (0..MaxTTL)

NoSet == [value |-> Null, time |-> 0, ttl |-> NoTTL]
NoCall == [op |-> "none", key |-> << >>, ret |-> Null, removed |-> 0]

\* The keys of a Map.
Stored(c) == {c[i].key : i \in 1..Len(c)}

\* Map.get: the place of key k in the Map, 0 when it has none.
IndexOf(c, k) ==
  IF k \in Stored(c) THEN CHOOSE i \in 1..Len(c) : c[i].key = k ELSE 0

\* Map.delete
MapDelete(c, k) == SelectSeq(c, LAMBDA e : e.key # k)

\* Map.set: an existing key keeps its place in the iteration order.
MapSet(c, e) ==
  IF IndexOf(c, e.key) # 0 THEN [c EXCEPT ![IndexOf(c, e.key)] = e]
  ELSE Append(c, e)

\* evictOldest line 311: entry.timestamp < oldestTime
Older(e, oldestTime) == e.timestamp < oldestTime

\* evictOldest lines 307-315: the loop over the entries from place i on; oldest is
\* the place of oldestKey (0: null, oldestTime Infinity).
RECURSIVE OldestFrom(_, _, _)
OldestFrom(c, i, oldest) ==
  IF i > Len(c) THEN oldest
  ELSE IF oldest = 0 \/ Older(c[i], c[oldest].timestamp)
       THEN OldestFrom(c, i + 1, i)
       ELSE OldestFrom(c, i + 1, oldest)

\* evictOldest()
EvictOldest(c) ==
  LET oldest == OldestFrom(c, 1, 0)
  IN  IF oldest = 0 THEN c ELSE MapDelete(c, c[oldest].key)

\* The test of get line 149 with >= for >: an entry would expire at the very
\* instant its age reaches its ttl.
ExpiredAtOrAfter(e, t) == e.ttl # NoTTL /\ t - e.timestamp >= e.ttl

\* get lines 147-149, cleanup line 291: the entry has a ttl and its age exceeds it.
Expired(e, t) == e.ttl # NoTTL /\ t - e.timestamp > e.ttl

\* The record of the set() call that made each entry, kept for the stored keys only.
KeepGhosts(c) ==
  lastSet' = [k \in Keys |-> IF k \in Stored(c) THEN lastSet[k] ELSE NoSet]

\* set(key, value, ttl)
CacheSet(k, v, ttl) ==
  LET evicted == IF Len(cache) >= maxSize THEN EvictOldest(cache) ELSE cache
      entry == [key |-> k, value |-> v, timestamp |-> now,
                ttl |-> IF ttl # NoTTL THEN ttl ELSE defaultTTL]
      c == MapSet(evicted, entry)
  IN  /\ cache' = c
      /\ lastSet' = [j \in Keys |->
                       IF j = k THEN [value |-> v, time |-> now, ttl |-> ttl]
                       ELSE IF j \in Stored(c) THEN lastSet[j] ELSE NoSet]
      /\ cacheRet' = [op |-> "set", key |-> k, ret |-> Null,
                      removed |-> Len(cache) - Len(evicted)]
      /\ UNCHANGED <<now, maxSize, defaultTTL, hits, misses, lookups>>
      /\ UNCHANGED nonCache

\* get(key), lines 138-158, called as get() or through has(), which returns
\* get(key) !== null.
Lookup(op, k) ==
  LET i == IndexOf(cache, k)
      found == i # 0 /\ ~Expired(cache[i], now)
      c == IF i # 0 /\ Expired(cache[i], now) THEN MapDelete(cache, k) ELSE cache
  IN  /\ lookups < MaxLookups
      /\ cache' = c
      /\ KeepGhosts(c)
      /\ hits' = IF found THEN hits + 1 ELSE hits
      /\ misses' = IF found THEN misses ELSE misses + 1
      /\ lookups' = lookups + 1
      /\ cacheRet' = [op |-> op, key |-> k,
                      ret |-> IF op = "has" THEN found
                              ELSE IF found THEN cache[i].value ELSE Null,
                      removed |-> Len(cache) - Len(c)]
      /\ UNCHANGED <<now, maxSize, defaultTTL>>
      /\ UNCHANGED nonCache

CacheGet(k) == Lookup("get", k)

\* has() answered from the Map alone, without going through get(): no counter
\* moves and no expired entry is removed.
CacheHasUncounted(k) ==
  /\ lookups < MaxLookups
  /\ lookups' = lookups + 1
  /\ cacheRet' = [op |-> "has", key |-> k, ret |-> k \in Stored(cache), removed |-> 0]
  /\ UNCHANGED <<now, maxSize, defaultTTL, cache, hits, misses, lastSet>>
  /\ UNCHANGED nonCache

\* has(key), lines 173-175
CacheHas(k) == Lookup("has", k)

\* delete(key)
CacheDelete(k) ==
  /\ cache' = MapDelete(cache, k)
  /\ KeepGhosts(MapDelete(cache, k))
  /\ cacheRet' = [op |-> "delete", key |-> k, ret |-> k \in Stored(cache),
                  removed |-> Len(cache) - Len(MapDelete(cache, k))]
  /\ UNCHANGED <<now, maxSize, defaultTTL, hits, misses, lookups>>
  /\ UNCHANGED nonCache

\* clear(), and invalidate() without a pattern, which returns the size and clears.
CacheClear(op) ==
  /\ cache' = << >>
  /\ KeepGhosts(<< >>)
  /\ hits' = 0
  /\ misses' = 0
  /\ lookups' = 0
  /\ cacheRet' = [op |-> op, key |-> << >>,
                  ret |-> IF op = "invalidate" THEN Len(cache) ELSE Null,
                  removed |-> Len(cache)]
  /\ UNCHANGED <<now, maxSize, defaultTTL>>
  /\ UNCHANGED nonCache

\* The pattern, a literal, occurs in the key at the (0-based) index i.
MatchesAt(pat, key, i) ==
  /\ i + Len(pat) <= Len(key)
  /\ \A j \in 1..Len(pat) : key[i + j] = pat[j]

\* RegExp.prototype.test on a regular expression whose source is the literal pat:
\* with the g flag the search starts at lastIndex, which a match sets to the end
\* of the match and a failure to 0; without it the search starts at 0 and
\* lastIndex is left alone.
RegexTest(pat, global, lastIndex, key) ==
  LET from == IF global THEN lastIndex ELSE 0
      at == {i \in from..Len(key) : MatchesAt(pat, key, i)}
      first == CHOOSE i \in at : \A j \in at : i <= j
  IN  IF at = {}
      THEN [found |-> FALSE, lastIndex |-> IF global THEN 0 ELSE lastIndex]
      ELSE [found |-> TRUE,
            lastIndex |-> IF global THEN first + Len(pat) ELSE lastIndex]

\* invalidate lines 231-236: the loop over the keys from place i of the iteration
\* on, with the one regex object; the result is the Map left and the count.
RECURSIVE InvalidateFrom(_, _, _, _, _, _)
InvalidateFrom(c, keys, pat, global, lastIndex, count) ==
  IF keys = << >> THEN [cache |-> c, count |-> count]
  ELSE LET t == RegexTest(pat, global, lastIndex, Head(keys))
       IN  IF t.found
           THEN InvalidateFrom(MapDelete(c, Head(keys)), Tail(keys), pat, global,
                               t.lastIndex, count + 1)
           ELSE InvalidateFrom(c, Tail(keys), pat, global, t.lastIndex, count)

\* invalidate(pattern): a string, made a RegExp without flags by line 229, or a
\* RegExp object, with the g flag or without, whose lastIndex is 0.
CacheInvalidate(pat, global) ==
  LET r == InvalidateFrom(cache, [i \in 1..Len(cache) |-> cache[i].key], pat,
                          global, 0, 0)
  IN  /\ cache' = r.cache
      /\ KeepGhosts(r.cache)
      /\ cacheRet' = [op |-> IF global THEN "invalidate-g" ELSE "invalidate-pattern",
                      key |-> pat, ret |-> r.count,
                      removed |-> Len(cache) - Len(r.cache)]
      /\ UNCHANGED <<now, maxSize, defaultTTL, hits, misses, lookups>>
      /\ UNCHANGED nonCache

\* cleanup(): removes the expired entries and returns their number.
CacheCleanup ==
  LET c == SelectSeq(cache, LAMBDA e : ~Expired(e, now))
  IN  /\ cache' = c
      /\ KeepGhosts(c)
      /\ cacheRet' = [op |-> "cleanup", key |-> << >>, ret |-> Len(cache) - Len(c),
                  removed |-> Len(cache) - Len(c)]
      /\ UNCHANGED <<now, maxSize, defaultTTL, hits, misses, lookups>>
      /\ UNCHANGED nonCache

\* Time passes.
CacheTick ==
  /\ now < CacheMaxTime
  /\ now' = now + 1
  /\ cacheRet' = NoCall
  /\ UNCHANGED <<maxSize, defaultTTL, cache, hits, misses, lastSet, lookups>>
  /\ UNCHANGED nonCache

\* --------------------------------------------------------- OperationBatcher

\* Date.now() when the batcher is constructed
BEpoch == MaxWait + 1
BatchMaxTime == BEpoch + BatchTicks

Adds == 1..NumAdds

\* A place of the array the processor returns holds undefined or a result; the
\* results are numbered by the place the processor puts them in.
Undefined == 0

\* The arrays of n places whose undefined places are those of the set undef.
ResultsArray(n, undef) == [j \in 1..n |-> IF j \in undef THEN Undefined ELSE j]

Step(name) == [name |-> name, results |-> << >>]

NoTimer == [set |-> FALSE, live |-> FALSE, due |-> 0]
NewItem == [st |-> "none", ts |-> 0, result |-> Undefined, error |-> ""]

\* The add() call made next: the items are numbered in the order they are added,
\* and an item's number is its payload.
NextAdd == Cardinality({i \in Adds : item[i].st # "none"}) + 1

Range(q) == {q[j] : j \in 1..Len(q)}

\* item.reject(error) for every item of the batch b; a promise already settled
\* stays as it is.
RejectBatch(it, b, error) ==
  [i \in Adds |-> IF i \in Range(b) /\ it[i].st = "inflight"
                  THEN [st |-> "rejected", ts |-> 0, result |-> Undefined, error |-> error]
                  ELSE it[i]]

\* The place of the first undefined result, 0 when there is none.
FirstUndefined(results) ==
  IF \E j \in 1..Len(results) : results[j] = Undefined
  THEN CHOOSE j \in 1..Len(results) :
         /\ results[j] = Undefined
         /\ \A l \in 1..(j - 1) : results[l] # Undefined
  ELSE 0

\* Lines 143-149: item.resolve(result) for the items of b in order, up to the
\* first undefined result, where the loop throws.
ResolveBatch(it, b, results) ==
  LET u == FirstUndefined(results)
  IN  [i \in Adds |->
         IF \E j \in 1..Len(b) : b[j] = i /\ (u = 0 \/ j < u)
         THEN [st |-> "resolved", ts |-> 0,
               result |-> results[CHOOSE j \in 1..Len(b) : b[j] = i], error |-> ""]
         ELSE it[i]]

\* The test of line 137 with < for !==: an array longer than the batch would pass.
LengthShort(results, b) == Len(results) < Len(b)

\* Line 137: results.length !== batch.length
LengthMismatch(results, b) == Len(results) # Len(b)

\* The test of line 122 with <= for <: a batch below minBatchSize would be put off
\* once more at the very instant maxWaitTime has elapsed.
StillWithinWaitOrAt(waitTime) == waitTime <= maxWaitTime

\* Line 122: waitTime < this.config.maxWaitTime
StillWithinWait(waitTime) == waitTime < maxWaitTime

\* The test of line 115 left out: no batch would be put off.
BelowMinBatchNever(q) == FALSE

\* Line 115: this.queue.length < this.config.minBatchSize
BelowMinBatch(q) == Len(q) < minBatchSize

\* The guard of line 102 left out: processBatch() would never return early.
BusyNever == FALSE

\* Line 102: this.isProcessing
Busy == isProcessing

\* The finally block, lines 154-160, with q the queue at that moment.
Finally(q, imm) ==
  /\ isProcessing' = FALSE
  /\ batch' = << >>
  /\ immediates' = IF q # << >> THEN imm + 1 ELSE imm

\* processBatch(), up to its await of the processor, lines 101-135, run with q as
\* the queue, it as the promises, tm as this.timer and imm as the setImmediate
\* callbacks pending.  throws: the processor throws instead of returning a
\* promise, and the catch and finally blocks run at once.
ProcessBatch(q, it, tm, imm, throws) ==
  IF Busy
  THEN /\ batchQueue' = q
       /\ item' = it
       /\ timer' = tm
       /\ immediates' = imm
       /\ UNCHANGED <<isProcessing, batch, invocations>>
  ELSE IF q = << >>
  THEN /\ batchQueue' = q
       /\ item' = it
       /\ timer' = NoTimer
       /\ immediates' = imm
       /\ UNCHANGED <<isProcessing, batch, invocations>>
  ELSE IF BelowMinBatch(q) /\ StillWithinWait(now - it[q[1]].ts)
  THEN /\ batchQueue' = q
       /\ item' = it
       /\ timer' = [set |-> TRUE, live |-> TRUE,
                    due |-> now + (maxWaitTime - (now - it[q[1]].ts))]
       /\ immediates' = imm
       /\ UNCHANGED <<isProcessing, batch, invocations>>
  ELSE LET n == IF Len(q) < maxBatchSize THEN Len(q) ELSE maxBatchSize
           b == SubSeq(q, 1, n)
           rest == SubSeq(q, n + 1, Len(q))
           started == [i \in Adds |-> IF i \in Range(b)
                                      THEN [NewItem EXCEPT !.st = "inflight"]
                                      ELSE it[i]]
       IN  /\ timer' = NoTimer
           /\ batchQueue' = rest
           /\ invocations' = Append(invocations, b)
           /\ IF throws
              THEN /\ item' = RejectBatch(started, b, "processor error")
                   /\ Finally(rest, imm)
              ELSE /\ item' = started
                   /\ isProcessing' = TRUE
                   /\ batch' = b
                   /\ immediates' = imm

\* add(item), lines 79-96
Add(throws) ==
  LET i == NextAdd
      q == Append(batchQueue, i)
      it == [item EXCEPT ![i] = [NewItem EXCEPT !.st = "queued", !.ts = now]]
  IN  /\ i \in Adds
      /\ immediates < MaxImmediates
      /\ IF Len(q) >= maxBatchSize
         THEN ProcessBatch(q, it, timer, immediates, throws)
         ELSE /\ batchQueue' = q
              /\ item' = it
              /\ timer' = IF ~timer.set
                          THEN [set |-> TRUE, live |-> TRUE, due |-> now + maxWaitTime]
                          ELSE timer
              /\ UNCHANGED <<isProcessing, batch, immediates, invocations>>
      /\ bStep' = Step("add")
      /\ UNCHANGED <<now, maxBatchSize, maxWaitTime, minBatchSize, flush>>
      /\ UNCHANGED nonBatcher

\* The callback of the timeout of line 91 or 123 runs, at or after its due time.
TimerFires(throws) ==
  /\ timer.live
  /\ now >= timer.due
  /\ flush # "looping"
  /\ immediates < MaxImmediates
  /\ ProcessBatch(batchQueue, item, [timer EXCEPT !.live = FALSE], immediates, throws)
  /\ bStep' = Step("timer")
  /\ UNCHANGED <<now, maxBatchSize, maxWaitTime, minBatchSize, flush>>
  /\ UNCHANGED nonBatcher

\* A callback of the setImmediate of line 158 runs.
ImmediateRuns(throws) ==
  /\ immediates > 0
  /\ flush # "looping"
  /\ ProcessBatch(batchQueue, item, timer, immediates - 1, throws)
  /\ bStep' = Step("immediate")
  /\ UNCHANGED <<now, maxBatchSize, maxWaitTime, minBatchSize, flush>>
  /\ UNCHANGED nonBatcher

\* processBatch() returns, line 161: a flush() that awaits it continues.
AfterBatch == IF flush = "awaiting" THEN "looping" ELSE flush

\* The promise of the processor is fulfilled with the array results: lines
\* 137-160.
ProcessorReturns(results) ==
  /\ isProcessing
  /\ immediates < MaxImmediates
  /\ item' = IF LengthMismatch(results, batch)
             THEN RejectBatch(item, batch, "length mismatch")
             ELSE RejectBatch(ResolveBatch(item, batch, results), batch,
                              "undefined result")
  /\ Finally(batchQueue, immediates)
  /\ flush' = AfterBatch
  /\ bStep' = [name |-> "returns", results |-> results]
  /\ UNCHANGED <<now, maxBatchSize, maxWaitTime, minBatchSize, batchQueue, timer,
                 invocations>>
  /\ UNCHANGED nonBatcher

\* The promise of the processor is rejected, with an Error or with another
\* value: lines 150-160.
ProcessorRejects(withError) ==
  /\ isProcessing
  /\ immediates < MaxImmediates
  /\ item' = RejectBatch(item, batch, IF withError THEN "processor error"
                                      ELSE "Batch processing failed")
  /\ Finally(batchQueue, immediates)
  /\ flush' = AfterBatch
  /\ bStep' = Step("rejects")
  /\ UNCHANGED <<now, maxBatchSize, maxWaitTime, minBatchSize, batchQueue, timer,
                 invocations>>
  /\ UNCHANGED nonBatcher

\* clear() reaching the batch in flight too.
ClearedAndInFlight == Range(batchQueue) \cup Range(batch)

\* Line 194: the items clear() rejects, those of this.queue.
Cleared == Range(batchQueue)

\* clear(), lines 187-199
BatcherClear ==
  /\ timer' = NoTimer
  /\ item' = [i \in Adds |-> IF i \in Cleared
                             THEN [st |-> "rejected", ts |-> 0, result |-> Undefined,
                                   error |-> "Batcher cleared"]
                             ELSE item[i]]
  /\ batchQueue' = << >>
  /\ bStep' = Step("clear")
  /\ UNCHANGED <<now, maxBatchSize, maxWaitTime, minBatchSize, isProcessing, batch,
                 immediates, invocations, flush>>
  /\ UNCHANGED nonBatcher

\* Time passes.
BatcherTick ==
  /\ now < BatchMaxTime
  /\ now' = now + 1
  /\ bStep' = Step("tick")
  /\ UNCHANGED <<maxBatchSize, maxWaitTime, minBatchSize, batchQueue, timer,
                 isProcessing, batch, immediates, item, invocations, flush>>
  /\ UNCHANGED nonBatcher

\* The loop of flush(), lines 172-174, from its test on, run with tm as
\* this.timer: flush() returns when the queue is empty; otherwise it calls
\* processBatch() and awaits the promise, which is pending only when that call
\* has put a batch in flight.
FlushIteration(tm, throws) ==
  /\ IF batchQueue = << >>
     THEN /\ flush' = "resolved"
          /\ timer' = tm
          /\ UNCHANGED <<batchQueue, item, isProcessing, batch, immediates, invocations>>
     ELSE /\ ProcessBatch(batchQueue, item, tm, immediates, throws)
          /\ flush' = IF ~isProcessing /\ isProcessing' THEN "awaiting" ELSE "looping"
  /\ bStep' = Step("flush")
  /\ UNCHANGED <<now, maxBatchSize, maxWaitTime, minBatchSize>>
  /\ UNCHANGED nonBatcher

\* flush() is called, lines 166-174: the timer is cancelled and the loop is
\* entered.
FlushCall(throws) ==
  /\ flush \in {"idle", "resolved"}
  /\ FlushIteration(NoTimer, throws)

\* The continuation of flush() after its await, line 173, runs.
FlushContinues(throws) ==
  /\ flush = "looping"
  /\ FlushIteration(timer, throws)

\* Time passes while something waits for it: a timeout not yet due, or a queued
\* item younger than maxWaitTime.
TimePasses ==
  /\ \/ timer.live /\ now < timer.due
     \/ batchQueue # << >> /\ now - item[batchQueue[1]].ts < maxWaitTime
  /\ now' = now + 1
  /\ bStep' = Step("tick")
  /\ UNCHANGED <<maxBatchSize, maxWaitTime, minBatchSize, batchQueue, timer,
                 isProcessing, batch, immediates, item, invocations, flush>>
  /\ UNCHANGED nonBatcher

\* -------------------------------------------------------------------- retry

\* The messages of the values fn rejects with: one that isRetryableError accepts,
\* one that it does not, and the empty message of new Error().
Messages == {"ETIMEDOUT", "bad", ""}

\* What fn rejects with: an Error, or a value that is not one (the string 'bad').
Thrown ==
  {[isError |-> TRUE, message |-> m] : m \in Messages}
    \cup {[isError |-> FALSE, message |-> "bad"]}

\* lastError before any failure: null (config form) or undefined (positional form).
NoError == [isError |-> FALSE, message |-> ""]

\* error instanceof Error ? error : new Error(String(error))
AsError(v) == [isError |-> TRUE, message |-> v.message]

\* isRetryableError, on the messages above (the name of each of them is 'Error').
IsRetryableError(error) == error.message = "ETIMEDOUT"

\* cfg.shouldRetry: the default, or a predicate of the caller.
ShouldRetryFns == {"isRetryableError", "always", "never"}

ShouldRetry(c, error) ==
  CASE c.shouldRetry = "isRetryableError" -> IsRetryableError(error)
    [] c.shouldRetry = "always" -> TRUE
    [] c.shouldRetry = "never" -> FALSE

\* lastError?.message || 'Unknown error'
MessageOrUnknown(error) ==
  IF error.message = "" THEN "Unknown error" ELSE error.message

\* Math.pow(b, n) for a natural n
RECURSIVE Pow(_, _)
Pow(b, n) == IF n = 0 THEN 1 ELSE b * Pow(b, n - 1)

Min(a, b) == IF a <= b THEN a ELSE b

Max(a, b) == IF a >= b THEN a ELSE b

\* exponentialDelay of calculateDelay
ExponentialDelay(a, c) ==
  Min(c.initialDelay * Pow(c.backoffMultiplier, a - 1), c.maxDelay)

\* The whole values of Math.random() * jitterRange * 2 - jitterRange, which lies
\* in [-jitterRange, jitterRange) with jitterRange = exponentialDelay * 0.1.
JitterChoices(d) == {j \in (0 - d)..d : 0 - d <= 10 * j /\ 10 * j < d}

\* calculateDelay(attempt, config), with the jitter drawn
CalculateDelay(a, c, j) ==
  IF c.jitter THEN Max(0, ExponentialDelay(a, c) + j) ELSE ExponentialDelay(a, c)

\* The configurations of the config form.
Configs ==
  [form : {"config"},
   maxAttempts : 0..MaxAttemptsBound,
   initialDelay : {DelayStep * k : k \in 0..MaxInitialDelaySteps},
   maxDelay : {DelayStep * k : k \in 1..MaxDelaySteps},
   backoffMultiplier : 1..MaxMultiplier,
   jitter : BOOLEAN,
   shouldRetry : ShouldRetryFns]

\* The arguments of the positional form.
Positionals ==
  [form : {"positional"},
   maxRetries : 0..MaxBackoffRetries,
   baseDelay : 0..MaxBaseDelay]

NoCfg == [form |-> "none"]

NoOutcome == [kind |-> "none"]

\* One entry of events.
Ev(name, a, error, delay) ==
  [ev |-> name, attempt |-> a, error |-> error, delay |-> delay]

\* The RetryResult of lines 525-530.
Result(v, a, t) ==
  [kind |-> "result", result |-> v, attempts |-> a, totalTime |-> t,
   success |-> TRUE]

\* new Error(`Operation failed after ${cfg.maxAttempts} attempts: ...`), lines 549-551
OperationFailed(c, error) ==
  [kind |-> "error", text |-> "Operation failed after", count |-> c.maxAttempts,
   detail |-> MessageOrUnknown(error)]

\* new Error(`Failed after ${maxRetries} retries: ...`), lines 353-355
FailedAfter(c, error) ==
  [kind |-> "error", text |-> "Failed after", count |-> c.maxRetries,
   detail |-> MessageOrUnknown(error)]

\* throw lastError, line 539
Rethrown(error) == [kind |-> "rethrown", error |-> error]

\* retry(fn, config) runs from its call to the first await fn(): lines 508-523.
RetryStart(c) ==
  /\ retryPc = "idle"
  /\ cfg' = c
  /\ startTime' = now
  /\ lastError' = NoError
  /\ attempt' = 1
  /\ IF 1 <= c.maxAttempts
     THEN /\ events' = <<Ev("fn", 1, NoError, 0)>>
          /\ retryPc' = "calling"
          /\ retryOutcome' = NoOutcome
     ELSE /\ events' = << >>
          /\ retryPc' = "thrown"
          /\ retryOutcome' = OperationFailed(c, NoError)
  /\ UNCHANGED <<now, wakeAt>>

\* retry(fn, config) is called.
RetryCall(c) ==
  /\ RetryStart(c)
  /\ UNCHANGED nonRetry

\* fn's promise is fulfilled: lines 523-530.
RetryFnResolves(v) ==
  /\ cfg.form = "config"
  /\ retryPc = "calling"
  /\ retryPc' = "returned"
  /\ retryOutcome' = Result(v, attempt, now - startTime)
  /\ UNCHANGED <<now, cfg, attempt, lastError, startTime, wakeAt, events>>
  /\ UNCHANGED nonRetry

\* fn's promise is rejected (or fn threw): the catch block, lines 531-546.
RetryFnRejects(v, j) ==
  /\ cfg.form = "config"
  /\ retryPc = "calling"
  /\ lastError' = AsError(v)
  /\ IF attempt = cfg.maxAttempts
     THEN /\ retryPc' = "thrown"
          /\ retryOutcome' = OperationFailed(cfg, lastError')
          /\ UNCHANGED <<events, wakeAt>>
     ELSE IF ~ShouldRetry(cfg, lastError')
          THEN /\ retryPc' = "thrown"
               /\ retryOutcome' = Rethrown(lastError')
               /\ events' = Append(events, Ev("shouldRetry", attempt, lastError', 0))
               /\ UNCHANGED wakeAt
          ELSE LET delay == CalculateDelay(attempt, cfg, j)
               IN /\ retryPc' = "sleeping"
                  /\ wakeAt' = now + delay
                  /\ events' = events \o
                       <<Ev("shouldRetry", attempt, lastError', 0),
                         Ev("onRetry", attempt, lastError', delay),
                         Ev("sleep", attempt, lastError', delay)>>
                  /\ UNCHANGED retryOutcome
  /\ UNCHANGED <<now, cfg, attempt, startTime>>
  /\ UNCHANGED nonRetry

\* The timeout of line 545 fires: the loop's next turn, lines 521-523.
RetrySleepEnds ==
  /\ cfg.form = "config"
  /\ retryPc = "sleeping"
  /\ now' = Max(now, wakeAt)
  /\ attempt' = attempt + 1
  /\ IF attempt' <= cfg.maxAttempts
     THEN /\ events' = Append(events, Ev("fn", attempt', NoError, 0))
          /\ retryPc' = "calling"
          /\ UNCHANGED retryOutcome
     ELSE /\ retryPc' = "thrown"
          /\ retryOutcome' = OperationFailed(cfg, lastError)
          /\ UNCHANGED events
  /\ UNCHANGED <<cfg, lastError, startTime, wakeAt>>
  /\ UNCHANGED nonRetry

\* retry(fn, maxRetries, baseDelay) is called: lines 333-342.
BackoffCall(c) ==
  /\ retryPc = "idle"
  /\ cfg' = c
  /\ lastError' = NoError
  /\ attempt' = 0
  /\ IF 0 <= c.maxRetries
     THEN /\ events' = <<Ev("fn", 0, NoError, 0)>>
          /\ retryPc' = "calling"
          /\ retryOutcome' = NoOutcome
     ELSE /\ events' = << >>
          /\ retryPc' = "thrown"
          /\ retryOutcome' = FailedAfter(c, NoError)
  /\ UNCHANGED <<now, startTime, wakeAt>>
  /\ UNCHANGED nonRetry

\* fn's promise is fulfilled: return await fn(), line 342.
BackoffFnResolves(v) ==
  /\ cfg.form = "positional"
  /\ retryPc = "calling"
  /\ retryPc' = "returned"
  /\ retryOutcome' = [kind |-> "result", result |-> v]
  /\ UNCHANGED <<now, cfg, attempt, lastError, startTime, wakeAt, events>>
  /\ UNCHANGED nonRetry

\* What follows the loop's attempt++ : the next call of fn, or the throw of
\* lines 353-355 when the loop ends.
BackoffNext(a, error, evs) ==
  IF a <= cfg.maxRetries
  THEN /\ attempt' = a
       /\ events' = Append(evs, Ev("fn", a, NoError, 0))
       /\ retryPc' = "calling"
       /\ UNCHANGED retryOutcome
  ELSE /\ attempt' = a
       /\ events' = evs
       /\ retryPc' = "thrown"
       /\ retryOutcome' = FailedAfter(cfg, error)

\* A backoff that starts at twice baseDelay.
BackoffDelayFromTwice(c, a) == c.baseDelay * Pow(2, a + 1)

\* const delay = baseDelay * Math.pow(2, attempt), line 347
BackoffDelay(c, a) == c.baseDelay * Pow(2, a)

\* fn's promise is rejected (or fn threw): the catch block, lines 343-350.
BackoffFnRejects(v) ==
  /\ cfg.form = "positional"
  /\ retryPc = "calling"
  /\ lastError' = AsError(v)
  /\ IF attempt < cfg.maxRetries
     THEN LET delay == BackoffDelay(cfg, attempt)
          IN /\ retryPc' = "sleeping"
             /\ wakeAt' = now + delay
             /\ events' = Append(events, Ev("sleep", attempt, lastError', delay))
             /\ UNCHANGED <<attempt, retryOutcome>>
     ELSE /\ BackoffNext(attempt + 1, lastError', events)
          /\ UNCHANGED wakeAt
  /\ UNCHANGED <<now, cfg, startTime>>
  /\ UNCHANGED nonRetry

\* The timeout of sleep(delay) fires: the loop's next turn.
BackoffSleepEnds ==
  /\ cfg.form = "positional"
  /\ retryPc = "sleeping"
  /\ now' = Max(now, wakeAt)
  /\ BackoffNext(attempt + 1, lastError, events)
  /\ UNCHANGED <<cfg, lastError, startTime, wakeAt>>
  /\ UNCHANGED nonRetry

\* ------------------------------------------------------- retryWithTimeout

\* new Error(`Operation timed out after ${timeoutMs}ms`), line 573
TimedOut(ms) == [kind |-> "error", text |-> "Operation timed out after", count |-> ms]

\* retry(fn, config) has settled.
RetrySettled == retryPc \in {"returned", "thrown"}

\* What the promise of Promise.race (line 569) is settled with: that of the two
\* promises that settled first.
RaceOutcome ==
  CASE raceTimer = "won" -> TimedOut(timeoutMs)
    [] raceTimer \in {"live", "lost"} -> retryOutcome
    [] OTHER -> NoOutcome

\* retryWithTimeout(fn, ms, c) is called: retry(fn, c) runs to its first await,
\* then the timeout is set (lines 569-575).
RetryWithTimeoutCall(c, ms) ==
  /\ RetryStart(c)
  /\ timeoutMs' = ms
  /\ timeoutAt' = now + ms
  /\ raceTimer' = "live"
  /\ UNCHANGED nonRace

\* The timeout of line 572 fires, once every timeout due before it has: reject()
\* settles the race unless retry() has settled it. Nothing tells retry().
TimeoutFires ==
  /\ raceTimer = "live"
  /\ retryPc = "sleeping" => timeoutAt <= wakeAt
  /\ now' = Max(now, timeoutAt)
  /\ raceTimer' = IF RetrySettled THEN "lost" ELSE "won"
  /\ UNCHANGED <<timeoutMs, timeoutAt>>
  /\ UNCHANGED retryVars
  /\ UNCHANGED nonRace

\* The timeout of the backoff sleep (line 545) fires, once every timeout due
\* before it has.
RaceSleepEnds ==
  /\ raceTimer = "live" => wakeAt <= timeoutAt
  /\ RetrySleepEnds

\* fn() stays pending while the clock advances, not beyond a timeout that is due.
FnTakesTime ==
  /\ retryPc = "calling"
  /\ now + FnStep <= MaxRaceTime
  /\ raceTimer = "live" => now + FnStep <= timeoutAt
  /\ now' = now + FnStep
  /\ UNCHANGED <<retryVars, raceVars>>
  /\ UNCHANGED nonRace

\* ---------------------------------------------------------- specifications

\* A TransactionQueue just constructed with the default options.
TQFresh ==
  /\ maxConcurrent = 1
  /\ rateLimit = 0
  /\ queue = << >>
  /\ processing = 0
  /\ completed = 0
  /\ failed = 0
  /\ isProcessingQueue = FALSE
  /\ lastExecutionTime = 0
  /\ tx = [i \in Ids |-> NewTx]
  /\ enqResult = [i \in Ids |-> NoResult]
  /\ burst = TRUE

\* A CircuitBreaker just constructed.
CBFresh ==
  /\ cbState = "closed"
  /\ failureCount = 0
  /\ lastFailureTime = 0
  /\ cbCall = [c \in Calls |-> "idle"]
  /\ cbEntry = [c \in Calls |-> "none"]

\* An EncryptionCache just constructed with the default options (maxSize 1000 is
\* beyond what any behaviour of a specification of another component stores).
CacheFresh ==
  /\ maxSize = MaxCacheSize
  /\ defaultTTL = NoTTL
  /\ cache = << >>
  /\ hits = 0
  /\ misses = 0
  /\ lastSet = [k \in Keys |-> NoSet]
  /\ lookups = 0
  /\ cacheRet = NoCall

\* An OperationBatcher just constructed with the default options (maxBatchSize 50
\* is beyond what any behaviour of a specification of another component queues).
BatcherFresh ==
  /\ maxBatchSize = MaxBatchBound
  /\ maxWaitTime = MaxWait
  /\ minBatchSize = 1
  /\ batchQueue = << >>
  /\ timer = NoTimer
  /\ isProcessing = FALSE
  /\ batch = << >>
  /\ immediates = 0
  /\ item = [i \in Adds |-> NewItem]
  /\ invocations = << >>
  /\ bStep = Step("none")
  /\ flush = "idle"

\* No retry call made.
RetryFresh ==
  /\ cfg = NoCfg
  /\ attempt = 0
  /\ lastError = NoError
  /\ startTime = 0
  /\ wakeAt = 0
  /\ retryPc = "idle"
  /\ events = << >>
  /\ retryOutcome = NoOutcome
  /\ timeoutMs = 0
  /\ timeoutAt = 0
  /\ raceTimer = "none"

\* new TransactionQueue({maxConcurrent, rateLimit})
InitTQ ==
  /\ now = Epoch
  /\ maxConcurrent \in 1..MaxConcurrentBound
  /\ rateLimit \in 0..MaxRateLimit
  /\ queue = << >>
  /\ processing = 0
  /\ completed = 0
  /\ failed = 0
  /\ isProcessingQueue = FALSE
  /\ lastExecutionTime = 0
  /\ tx = [i \in Ids |-> NewTx]
  /\ enqResult = [i \in Ids |-> NoResult]
  /\ burst = TRUE
  /\ failureThreshold = 1
  /\ resetTimeout = 0
  /\ CBFresh
  /\ CacheFresh
  /\ BatcherFresh
  /\ RetryFresh

NextTQ ==
  \/ \E p \in 0..MaxPriority, r \in 0..MaxRetriesBound :
        NextId <= MixedItems /\ Enqueue(p, r)
  \/ \E id \in Ids : WakeFromRateLimit(id)
  \/ \E id \in Ids, success \in BOOLEAN : ExecuteSettles(id, success)
  \/ \E id \in Ids : RetryAttempt(id)
  \/ \E id \in Ids : AfterExecution(id)
  \/ \E id \in Ids : CancelTransaction(id)
  \/ Clear
  \/ \E id \in Ids : WaitForTransactionResolves(id)
  \/ Tick

SpecTQ == InitTQ /\ [][NextTQ]_vars

\* A load of up to NumItems requests of default priority and no retries, with no
\* cancellation: the interleavings of enqueue calls, rate-limit sleeps and
\* completions.
NextLoad ==
  \/ Enqueue(0, 0)
  \/ \E id \in Ids : WakeFromRateLimit(id)
  \/ \E id \in Ids, success \in BOOLEAN : ExecuteSettles(id, success)
  \/ \E id \in Ids : AfterExecution(id)
  \/ Tick

SpecLoad == InitTQ /\ [][NextLoad]_vars


\* new CircuitBreaker({failureThreshold, resetTimeout, monitoringPeriod})
InitCB ==
  /\ now = CBEpoch
  /\ failureThreshold \in 1..MaxFailureThreshold
  /\ resetTimeout \in 0..MaxResetTimeout
  /\ CBFresh
  /\ TQFresh
  /\ CacheFresh
  /\ BatcherFresh
  /\ RetryFresh

NextCB ==
  \/ \E c \in Calls : Execute(c)
  \/ \E c \in Calls : FnResolves(c)
  \/ \E c \in Calls : FnRejects(c)
  \/ ForceOpen
  \/ ForceReset
  \/ CBTick

SpecCB == InitCB /\ [][NextCB]_vars

\* The breaker driven by execute() calls only: no forceOpen() or forceReset().
NextCalls ==
  \/ \E c \in Calls : Execute(c)
  \/ \E c \in Calls : FnResolves(c)
  \/ \E c \in Calls : FnRejects(c)
  \/ CBTick

SpecCalls == InitCB /\ [][NextCalls]_vars

\* new EncryptionCache({maxSize, defaultTTL})
InitCache ==
  /\ now = CacheEpoch
  /\ maxSize \in 0..MaxCacheSize
  /\ defaultTTL \in TTLs
  /\ cache = << >>
  /\ hits = 0
  /\ misses = 0
  /\ lastSet = [k \in Keys |-> NoSet]
  /\ lookups = 0
  /\ cacheRet = NoCall
  /\ TQFresh
  /\ failureThreshold = 1
  /\ resetTimeout = 0
  /\ CBFresh
  /\ BatcherFresh
  /\ RetryFresh

NextCache ==
  \/ \E k \in Keys, v \in Values, ttl \in TTLs : CacheSet(k, v, ttl)
  \/ \E k \in Keys : CacheGet(k)
  \/ \E k \in Keys : CacheHas(k)
  \/ \E k \in Keys : CacheDelete(k)
  \/ CacheClear("clear")
  \/ CacheClear("invalidate")
  \/ \E pat \in Patterns, global \in BOOLEAN : CacheInvalidate(pat, global)
  \/ CacheCleanup
  \/ CacheTick

SpecCache == InitCache /\ [][NextCache]_vars

\* new OperationBatcher(processor, {maxBatchSize, maxWaitTime, minBatchSize}),
\* then driven by add(), clear(), its timers and its processor.
InitBatcher ==
  /\ now = BEpoch
  /\ maxBatchSize \in 1..MaxBatchBound
  /\ maxWaitTime \in 0..MaxWait
  /\ minBatchSize \in 1..MaxMinBatch
  /\ batchQueue = << >>
  /\ timer = NoTimer
  /\ isProcessing = FALSE
  /\ batch = << >>
  /\ immediates = 0
  /\ item = [i \in Adds |-> NewItem]
  /\ invocations = << >>
  /\ bStep = Step("none")
  /\ flush = "idle"
  /\ TQFresh
  /\ failureThreshold = 1
  /\ resetTimeout = 0
  /\ CBFresh
  /\ CacheFresh
  /\ RetryFresh

NextBatcher ==
  \/ \E throws \in BOOLEAN : Add(throws)
  \/ \E throws \in BOOLEAN : TimerFires(throws)
  \/ \E throws \in BOOLEAN : ImmediateRuns(throws)
  \/ \E n \in 0..(Len(batch) + 1) : \E undef \in SUBSET (1..n) :
        ProcessorReturns(ResultsArray(n, undef))
  \/ \E withError \in BOOLEAN : ProcessorRejects(withError)
  \/ BatcherClear
  \/ BatcherTick

SpecBatcher == InitBatcher /\ [][NextBatcher]_vars

\* The batcher with flush(): every interleaving of add(), flush(), clear(), the
\* timeout and setImmediate callbacks and the outcomes of the processor.
NextFlush ==
  \/ \E throws \in BOOLEAN : Add(throws)
  \/ \E throws \in BOOLEAN : TimerFires(throws)
  \/ \E throws \in BOOLEAN : ImmediateRuns(throws)
  \/ \E n \in 0..(Len(batch) + 1) : \E undef \in SUBSET (1..n) :
        ProcessorReturns(ResultsArray(n, undef))
  \/ \E withError \in BOOLEAN : ProcessorRejects(withError)
  \/ BatcherClear
  \/ \E throws \in BOOLEAN : FlushCall(throws)
  \/ \E throws \in BOOLEAN : FlushContinues(throws)
  \/ TimePasses

SpecFlush == InitBatcher /\ [][NextFlush]_vars

\* The processor settles its promise from an I/O or timer callback of the event
\* loop, which runs only when no microtask is pending.
ProcessorSettles ==
  /\ flush # "looping"
  /\ \/ \E n \in 0..(Len(batch) + 1) : \E undef \in SUBSET (1..n) :
          ProcessorReturns(ResultsArray(n, undef))
     \/ \E withError \in BOOLEAN : ProcessorRejects(withError)

\* One flush() call, with no add() after it: every timer fires, every scheduled
\* callback and continuation runs, and the processor settles every call whenever
\* the event loop gets to run its callback.
NextFlushOnce ==
  \/ \E throws \in BOOLEAN : flush = "idle" /\ Add(throws)
  \/ \E throws \in BOOLEAN : TimerFires(throws)
  \/ \E throws \in BOOLEAN : ImmediateRuns(throws)
  \/ ProcessorSettles
  \/ BatcherClear
  \/ \E throws \in BOOLEAN : flush = "idle" /\ FlushCall(throws)
  \/ \E throws \in BOOLEAN : FlushContinues(throws)
  \/ TimePasses

SpecFlushOnce ==
  /\ InitBatcher
  /\ [][NextFlushOnce]_vars
  /\ WF_vars(\E throws \in BOOLEAN : TimerFires(throws))
  /\ WF_vars(\E throws \in BOOLEAN : ImmediateRuns(throws))
  /\ WF_vars(ProcessorSettles)
  /\ WF_vars(\E throws \in BOOLEAN : FlushContinues(throws))
  /\ WF_vars(TimePasses)

\* No retry call made yet; the other components are not used.
InitRetry ==
  /\ now = 0
  /\ RetryFresh
  /\ TQFresh
  /\ failureThreshold = 1
  /\ resetTimeout = 0
  /\ CBFresh
  /\ CacheFresh
  /\ BatcherFresh

\* One call of retry(fn, config) with any configuration and any outcomes of fn.
NextRetry ==
  \/ \E c \in Configs : RetryCall(c)
  \/ \E v \in 1..NumValues : RetryFnResolves(v)
  \/ \E v \in Thrown :
       \E j \in IF cfg.form = "config" /\ retryPc = "calling" /\ cfg.jitter
                THEN JitterChoices(ExponentialDelay(attempt, cfg)) \cup {0}
                ELSE {0} : RetryFnRejects(v, j)
  \/ RetrySleepEnds

SpecRetry == InitRetry /\ [][NextRetry]_vars

\* One call of retry(fn, maxRetries, baseDelay) with any outcomes of fn.
NextBackoff ==
  \/ \E c \in Positionals : BackoffCall(c)
  \/ \E v \in 1..NumValues : BackoffFnResolves(v)
  \/ \E v \in Thrown : BackoffFnRejects(v)
  \/ BackoffSleepEnds

SpecBackoff == InitRetry /\ [][NextBackoff]_vars

\* One call of retryWithTimeout(fn, timeoutMs, config) with any configuration, any
\* outcomes of fn and any time taken by fn.
NextRace ==
  \/ \E c \in Configs : \E k \in 0..MaxTimeoutSteps :
       RetryWithTimeoutCall(c, TimeoutStep * k)
  \/ \E v \in 1..NumValues : RetryFnResolves(v)
  \/ \E v \in Thrown :
       \E j \in IF cfg.form = "config" /\ retryPc = "calling" /\ cfg.jitter
                THEN JitterChoices(ExponentialDelay(attempt, cfg)) \cup {0}
                ELSE {0} : RetryFnRejects(v, j)
  \/ RaceSleepEnds
  \/ TimeoutFires
  \/ FnTakesTime

SpecRace == InitRetry /\ [][NextRace]_vars

\* ------------------------------------------------ TransactionQueue: claims

\* C1: the number of requests dispatched and not yet settled (the processing
\* counter) never exceeds maxConcurrent, whatever rateLimit is.
C1_ConcurrencyBound == processing <= maxConcurrent

\* C2: with maxConcurrent = 1, when requests are enqueued back-to-back on an idle
\* queue, the request whose operation has begun is one of highest priority among
\* those enqueued.
C2_HighestPriorityFirst ==
  (burst /\ maxConcurrent = 1) =>
    \A i, j \in Ids :
      (tx[i].calls > 0 /\ tx[j].st # "new") => tx[j].priority <= tx[i].priority

\* C3: the promise of enqueue() resolves with success = true only if the request's
\* operation succeeded, and with success = false when every attempt failed.
C3_FailureReported ==
  \A i \in Ids :
    enqResult[i].done =>
      (enqResult[i].success <=> (tx[i].res.done /\ tx[i].res.success))

\* C4: a pending request is eventually dispatched: whenever the pending list is not
\* empty, something that will run processQueue's loop is outstanding (an operation in
\* flight, whose completion re-enters the loop, or a coroutine in its rate-limit
\* sleep).
C4_PendingIsServed ==
  queue # << >> => (processing > 0 \/ \E i \in Ids : tx[i].st = "waiting")

\* C5: the promise of enqueue() resolves only after the request's own operation has
\* reached its terminal outcome.
C5_ResolvesAfterTerminal ==
  \A i \in Ids : enqResult[i].done => tx[i].res.done

\* C6: the attempts field of a request's result is the number of times its
\* operation was invoked.
C6_AttemptsCounted ==
  \A i \in Ids :
    /\ tx[i].res.done => tx[i].res.attempts = tx[i].calls
    /\ enqResult[i].done => enqResult[i].attempts = tx[i].calls

\* C7: two successive dispatches are at least rateLimit apart: a step that
\* dispatches a request, when one was dispatched before, happens no sooner than
\* rateLimit after the previous dispatch.
C7_RateLimitSpacing ==
  [][\A i \in Ids :
       (tx[i].calls = 0 /\ tx'[i].calls = 1 /\ \E j \in Ids : tx[j].calls > 0)
         => now' - lastExecutionTime >= rateLimit]_vars

\* C8: cancelTransaction(id) returns true exactly when the request has been
\* enqueued, not removed, and its operation has not been started; and a cancelled
\* request's operation is never invoked.
C8_CancelExactlyUndispatched ==
  \A i \in Ids :
    /\ CancelReturns(i) <=> tx[i].st \in {"pending", "waiting"}
    /\ tx[i].st = "cancelled" => tx[i].calls = 0

\* C9: no request that was enqueued and not yet dispatched when clear() was called
\* is ever dispatched, and a request clear() dropped is not in the pending list.
C9_ClearStopsUndispatched ==
  \A i \in Ids :
    /\ (tx[i].st = "cleared" \/ tx[i].sawClear) => tx[i].calls = 0
    /\ tx[i].st = "cleared" => FindIndex(queue, i, 1) = 0

\* Request i goes before request j: higher priority, or the same and enqueued
\* earlier (ids are given in the order of the enqueue() calls).
GoesBefore(i, j, t) ==
  \/ t[i].priority > t[j].priority
  \/ t[i].priority = t[j].priority /\ i < j

\* The requests this step takes off the pending list for dispatch.
Popped == {i \in Ids : /\ tx[i].st \in {"new", "pending"}
                        /\ tx'[i].st \in {"running", "waiting"}}

\* C27: whenever a request is taken off the pending list for dispatch, every
\* request left in the list has a priority no higher, and was enqueued later if
\* its priority is the same; the list is kept in that order by enqueue(),
\* cancelTransaction() and clear().
C27_PopOrder ==
  [][/\ \A i \in Popped : \A k \in 1..Len(queue') : GoesBefore(i, queue'[k], tx')
     /\ \A k, n \in 1..Len(queue') : k < n => GoesBefore(queue'[k], queue'[n], tx')]_vars

\* A request enqueued last, with a higher priority, has been dispatched while a
\* request enqueued before it is still pending.
C27_Witness ==
  \E i, j \in Ids :
    /\ j < i
    /\ tx[i].st = "running"
    /\ tx[j].st = "pending"
    /\ tx[i].priority > tx[j].priority
    /\ Len(queue) > 0

\* The requests whose operation this step starts.
Started == {i \in Ids : tx[i].calls = 0 /\ tx'[i].calls = 1}

\* The request whose last attempt fails in this step.
FailsForGood(i) ==
  /\ tx[i].st = "running"
  /\ tx'[i].st = "settled"
  /\ ~tx'[i].res.success

\* Nothing is outstanding that will run processQueue's loop again.
Stalled ==
  /\ queue # << >>
  /\ processing = 0
  /\ \A i \in Ids : tx[i].st # "waiting"

\* C28: a request whose every attempt fails adds one to the failed counter and,
\* when its completion is handled, takes one off the in-flight counter; once a
\* request has failed the queue is never left stalled, with pending requests, a
\* free slot and nothing outstanding that will dispatch them.
C28_FailureIsolation ==
  [][/\ \A i \in Ids : FailsForGood(i) => failed' = failed + 1
     /\ \A i \in Ids :
          (tx[i].st = "settled" /\ tx'[i].st = "finished")
            => processing' = processing - 1 + Cardinality(Started)
     /\ failed' > 0 => ~Stalled']_vars

\* C35: when no request is pending, none is in flight and none is held by a
\* coroutine in its rate-limit sleep, getQueueStatus().isProcessing is false.
C35_IdleFlag ==
  (queue = << >> /\ processing = 0 /\ \A i \in Ids : tx[i].st # "waiting")
    => ~isProcessingQueue

\* getQueueStatus().total, line 227
Total == Len(queue) + processing + completed + failed

\* The requests enqueue() has accepted, and those cancelTransaction() or clear()
\* has removed.
Accepted == {i \in Ids : tx[i].st # "new"}

Removed == {i \in Ids : tx[i].st \in {"cancelled", "cleared"}}

\* C36: whenever no completion is waiting to be handled, total is the number of
\* requests accepted less the number removed by cancelTransaction() or clear();
\* processing is never negative; and completed + failed grows by exactly one
\* when a dispatched request settles, and in no other step.
C36_Accounting ==
  [][/\ (\A i \in Ids : tx'[i].st # "settled")
          => Total' = Cardinality(Accepted') - Cardinality(Removed')
     /\ processing' >= 0
     /\ completed' + failed' =
          completed + failed
            + Cardinality({i \in Ids : tx[i].st = "running" /\ tx'[i].st = "settled"})]_vars

\* ------------------------------------------------- CircuitBreaker: claims

\* C10: an execute() call made while the state is open and no more than
\* resetTimeout has elapsed since lastFailureTime is rejected with the
\* 'Circuit breaker is open' error, invokes no wrapped function and leaves state,
\* failureCount and lastFailureTime unchanged.
C10_FastFailWhileOpen ==
  [][\A c \in Calls :
       (cbCall[c] = "idle" /\ cbCall'[c] # "idle"
          /\ cbState = "open" /\ now - lastFailureTime <= resetTimeout)
       => /\ cbCall'[c] = "rejected"
          /\ Invoked' = Invoked
          /\ UNCHANGED <<cbState, failureCount, lastFailureTime>>]_vars

\* C10 witness: a call was rejected by the open breaker.
C10_Witness ==
  \E c \in Calls : cbCall[c] = "rejected" /\ cbState = "open"

\* Calls that were let through as probes and are still in flight: the call that
\* found the breaker open past its timeout and made it half-open, and the calls
\* that found it half-open.
ProbesInFlight ==
  {c \in Calls : cbCall[c] = "inflight" /\ cbEntry[c] \in {"open", "half-open"}}

\* C11: at most one probe is in flight at any time: while a probe is in flight no
\* other execute() call invokes its wrapped function as a probe.
C11_SingleProbe == Cardinality(ProbesInFlight) <= 1

\* C12: when the call that found the breaker open past resetTimeout (the probe)
\* succeeds, the breaker is closed with failureCount = 0.
C12_ProbeSuccessCloses ==
  [][\A c \in Calls :
       (cbEntry[c] = "open" /\ cbCall[c] = "inflight" /\ cbCall'[c] = "returned")
       => (cbState' = "closed" /\ failureCount' = 0)]_vars

\* C13: when a call made as a probe fails while the breaker is half-open, the
\* breaker is open afterwards and lastFailureTime is the time of that failure.
C13_ProbeFailureOpens ==
  [][\A c \in Calls :
       (cbEntry[c] \in {"open", "half-open"} /\ cbState = "half-open"
          /\ cbCall[c] = "inflight" /\ cbCall'[c] = "threw")
       => (cbState' = "open" /\ lastFailureTime' = now)]_vars

\* The wrapped function of call c fails in this step.
WrappedCallFails(c) == cbCall[c] = "inflight" /\ cbCall'[c] # "inflight" /\ cbCall'[c] # "returned"

\* C29: each failed wrapped call adds exactly one to failureCount and rethrows;
\* a closed breaker stays closed while failureCount is below failureThreshold
\* and leaves the closed state through execute() only by the failure that makes
\* failureCount reach failureThreshold, after which it is open.
C29_TripsAtThreshold ==
  [][/\ \A c \in Calls :
          WrappedCallFails(c)
            => /\ cbCall'[c] = "threw"
               /\ failureCount' = failureCount + 1
               /\ failureCount' >= failureThreshold => cbState' = "open"
               /\ (cbState = "closed" /\ failureCount' < failureThreshold)
                    => cbState' = "closed"
     /\ (cbCall' # cbCall /\ cbState = "closed" /\ cbState' # "closed")
          => /\ \E c \in Calls : WrappedCallFails(c)
             /\ failureCount' >= failureThreshold
             /\ cbState' = "open"
     /\ cbState' = "closed" => failureCount' < failureThreshold]_vars

\* The breaker has tripped on its second failure, with a successful call
\* between the failures.
C29_Witness ==
  /\ cbState = "open"
  /\ failureThreshold = 2
  /\ failureCount = 2
  /\ \E a, b, c \in Calls :
       /\ a < b /\ b < c
       /\ cbCall[a] = "threw" /\ cbCall[b] = "returned" /\ cbCall[c] = "threw"
       /\ cbEntry[c] = "closed"

\* The state changes execute() and the completions of its calls may make.
AllowedTransitions ==
  {<<"closed", "open">>, <<"open", "half-open">>,
   <<"half-open", "closed">>, <<"half-open", "open">>}

\* C30: a step of execute() or of the completion of a call, whatever state the
\* call was made in, changes the state only from closed to open, from open to
\* half-open, from half-open to closed or from half-open to open.
C30_TransitionSet ==
  [][(cbCall' # cbCall /\ cbState' # cbState)
       => <<cbState, cbState'>> \in AllowedTransitions]_vars

\* A call made while the breaker was closed has succeeded after the breaker had
\* tripped and a later call had made it half-open: its success closed the
\* breaker while the probe is still in flight.
C30_Witness ==
  \E c, d \in Calls :
    /\ c < d
    /\ cbEntry[c] = "closed" /\ cbCall[c] = "returned"
    /\ cbEntry[d] = "open" /\ cbCall[d] = "inflight"
    /\ cbState = "closed"
    /\ failureCount = 0

\* The wrapped function of call c succeeds in this step.
WrappedCallSucceeds(c) == cbCall[c] = "inflight" /\ cbCall'[c] = "returned"

\* C39: failureCount counts the failed wrapped calls since the last reset: a
\* failure adds one, a success leaves it as it is unless the state is half-open
\* (where it resets the breaker), starting a call leaves it as it is, and only
\* forceReset() changes it otherwise, to 0; the breaker is open after the
\* failure that brings the count to failureThreshold, whatever successes came
\* between the failures.
C39_CumulativeFailureCount ==
  [][/\ \A c \in Calls :
          WrappedCallSucceeds(c)
            => IF cbState = "half-open"
               THEN failureCount' = 0 /\ cbState' = "closed"
               ELSE failureCount' = failureCount /\ cbState' = cbState
     /\ \A c \in Calls :
          WrappedCallFails(c)
            => /\ failureCount' = failureCount + 1
               /\ failureCount' >= failureThreshold => cbState' = "open"
     /\ \A c \in Calls :
          (cbCall[c] = "idle" /\ cbCall'[c] # "idle") => failureCount' = failureCount
     /\ (cbCall' = cbCall /\ failureCount' # failureCount)
          => failureCount' = 0 /\ cbState' = "closed"]_vars

\* A call has succeeded on a closed breaker that had recorded one failure: the
\* count is still 1 and the breaker closed.
C39_Witness ==
  /\ cbState = "closed"
  /\ failureThreshold = 2
  /\ failureCount = 1
  /\ cbCall[1] = "threw"
  /\ cbCall[2] = "returned"
  /\ cbCall[3] = "idle"

\* ------------------------------------------------- EncryptionCache: claims

\* C14: for every maxSize >= 0, right after a set() call the cache stores at most
\* maxSize entries.
C14_SizeWithinMaxSize == cacheRet.op = "set" => Len(cache) <= maxSize

\* C15: when set() inserts a new key into a cache that holds maxSize entries,
\* exactly one entry is removed, the one of oldest timestamp and among those of
\* that timestamp the first in the Map's insertion order, and the new key is
\* stored and not expired; a get() or has() call changes no timestamp and no
\* place of an entry it leaves in the cache.
C15_EvictsOldest ==
  [][\A k \in Keys :
       /\ (cacheRet'.op = "set" /\ cacheRet'.key = k /\ k \notin Stored(cache)
             /\ Len(cache) = maxSize)
          => /\ \E i \in 1..Len(cache) :
                  /\ Stored(cache') = (Stored(cache) \ {cache[i].key}) \cup {k}
                  /\ \A j \in 1..Len(cache) : cache[i].timestamp <= cache[j].timestamp
                  /\ \A j \in 1..(i - 1) : cache[i].timestamp < cache[j].timestamp
             /\ k \in Stored(cache')
             /\ ~Expired(cache'[IndexOf(cache', k)], now')
       /\ (cacheRet'.op \in {"get", "has"} /\ cacheRet'.key = k)
          => cache' \in {cache, MapDelete(cache, k)}]_vars

\* The set() call that made the entry of key k gave it a TTL (its ttl argument,
\* else defaultTTL) and the entry's age exceeds it.
SetHasExpired(k) ==
  LET ttl == IF lastSet[k].ttl # NoTTL THEN lastSet[k].ttl ELSE defaultTTL
  IN  ttl # NoTTL /\ now - lastSet[k].time > ttl

\* C16: get(key) returns the value of the most recent set() of the key when the
\* key is stored and has no TTL or an age within its TTL; otherwise it returns
\* null, and an entry that was stored but expired is removed by the call.
C16_GetHonoursTTL ==
  [][\A k \in Keys :
       (cacheRet'.op = "get" /\ cacheRet'.key = k)
       => IF k \in Stored(cache) /\ ~SetHasExpired(k)
          THEN cacheRet'.ret = lastSet[k].value /\ k \in Stored(cache')
          ELSE cacheRet'.ret = Null /\ k \notin Stored(cache')]_vars

\* A get() has just found an expired entry, removed it and returned null.
C16_Witness ==
  cacheRet.op = "get" /\ cacheRet.ret = Null /\ cacheRet.removed = 1

\* C17: hits + misses is the number of get() and has() calls since the last
\* clear(); a get() or has() call adds one to exactly one counter, to hits iff it
\* returns a value (true, for has); set, delete, cleanup and invalidation by a
\* pattern change neither counter.
C17_CountersCountLookups ==
  [][/\ hits' + misses' = lookups'
     /\ cacheRet'.op \in {"get", "has"}
        => LET hit == IF cacheRet'.op = "has" THEN cacheRet'.ret
                      ELSE cacheRet'.ret # Null
           IN  /\ hits' = IF hit THEN hits + 1 ELSE hits
               /\ misses' = IF hit THEN misses ELSE misses + 1
     /\ cacheRet'.op \in {"set", "delete", "cleanup", "invalidate-pattern",
                          "invalidate-g"}
        => hits' = hits /\ misses' = misses]_vars

\* A has() call has just been counted as a hit, after a miss.
C17_Witness ==
  cacheRet.op = "has" /\ cacheRet.ret /\ hits = 1 /\ misses = 1

\* The key matches the pattern: the literal occurs somewhere in it.
Matches(pat, key) == \E i \in 0..Len(key) : MatchesAt(pat, key, i)

\* C18: invalidate(pattern), for a string or a RegExp with any flags, removes
\* exactly the entries whose key matches the pattern, returns their number, and
\* leaves the other entries as they were.
C18_InvalidateRemovesMatching ==
  [][cacheRet'.op \in {"invalidate-pattern", "invalidate-g"}
     => /\ cache' = SelectSeq(cache, LAMBDA e : ~Matches(cacheRet'.key, e.key))
        /\ cacheRet'.ret = Len(cache) - Len(cache')
        /\ cacheRet'.ret = Cardinality({k \in Stored(cache) : Matches(cacheRet'.key, k)})]_vars

\* C31: set() removes an entry only when it inserts a new key into a cache that
\* holds maxSize entries; a set() of a key already stored replaces that key's
\* value and removes no other key.
C31_OverwriteKeepsOthers ==
  [][\A k \in Keys :
       (cacheRet'.op = "set" /\ cacheRet'.key = k)
       => /\ Stored(cache) \ Stored(cache') # {}
               => (k \notin Stored(cache) /\ Len(cache) >= maxSize)
          /\ k \in Stored(cache)
               => /\ Stored(cache') = Stored(cache)
                  /\ cache'[IndexOf(cache', k)].value = lastSet'[k].value]_vars

\* ------------------------------------------------ OperationBatcher: claims

\* Items added to an idle batcher wait for the timer that the first add()
\* started: nothing is in flight or scheduled, fewer than maxBatchSize items are
\* queued, and the pending timer is due maxWaitTime after the first was added.
WaitingForTimer ==
  /\ timer.live
  /\ ~isProcessing
  /\ immediates = 0
  /\ batchQueue # << >>
  /\ Len(batchQueue) < maxBatchSize
  /\ timer.due = item[batchQueue[1]].ts + maxWaitTime

\* C19: while k < maxBatchSize items added to an idle batcher wait for the timer
\* of the first add(), a further add() that keeps the queue below maxBatchSize
\* and the passing of time invoke nothing; when the timer fires the processor is
\* invoked with all queued payloads in the order they were added; and no payload
\* is ever handed to the processor twice.
C19_GroupedByTimer ==
  [][/\ WaitingForTimer
        => /\ \A i \in Range(batchQueue) : \A j \in 1..Len(invocations) :
                i \notin Range(invocations[j])
           /\ (bStep'.name = "tick"
                 \/ (bStep'.name = "add" /\ Len(batchQueue) + 1 < maxBatchSize))
              => invocations' = invocations /\ timer' = timer
           /\ bStep'.name = "timer"
              => invocations' = Append(invocations, batchQueue) /\ batchQueue' = << >>
     /\ \A i \in Adds :
          Cardinality({j \in 1..Len(invocations') : i \in Range(invocations'[j])}) <= 1
     /\ \A j \in 1..Len(invocations') :
          Cardinality(Range(invocations'[j])) = Len(invocations'[j])]_vars

\* The timer of the first add() has fired on two queued items and the processor,
\* not invoked before, has been called with both.
C19_Witness ==
  /\ bStep.name = "timer"
  /\ invocations = << <<1, 2>> >>
  /\ batch = <<1, 2>>

\* Every promise of the batch b is rejected, all with one error.
AllRejectedAlike(it, b) ==
  \E i \in Range(b) : \A j \in Range(b) :
    it[j].st = "rejected" /\ it[j].error = it[i].error /\ it[j].error # ""

\* C20: when the processor's promise is rejected, or fulfilled with an array
\* whose length differs from the batch's, or the processor throws, every promise
\* of that batch is rejected with the same error and none is resolved, and the
\* promises of the other items and the queue are left as they were.
C20_AllOrNothingOnFailure ==
  [][/\ (bStep'.name = "rejects"
           \/ (bStep'.name = "returns" /\ Len(bStep'.results) # Len(batch)))
        => /\ AllRejectedAlike(item', batch)
           /\ \A i \in Adds \ Range(batch) : item'[i] = item[i]
           /\ batchQueue' = batchQueue
     /\ (Len(invocations') > Len(invocations) /\ ~isProcessing')
        => LET b == invocations'[Len(invocations')]
           IN  /\ AllRejectedAlike(item', b)
               /\ \A i \in Adds \ Range(b) : i # NextAdd => item'[i] = item[i]]_vars

\* The processor has returned three results for a batch of two: both promises
\* are rejected for the mismatch while a third item is still queued.
C20_Witness ==
  /\ bStep.name = "returns"
  /\ Len(bStep.results) = 3
  /\ item[1].st = "rejected" /\ item[1].error = "length mismatch"
  /\ item[2].st = "rejected" /\ item[2].error = "length mismatch"
  /\ item[3].st = "queued"

\* The promises of the batches handed to the processor and not yet settled.
InFlight(it) == {i \in Adds : it[i].st = "inflight"}

\* C21: in every interleaving of add, flush, clear, timer firings and processor
\* completions, the items in flight all belong to one processor invocation; a
\* batch is handed to the processor only when none is in flight; and an item
\* added while a batch is in flight is queued by that add().
C21_OneBatchInFlight ==
  [][/\ Cardinality({j \in 1..Len(invocations') :
                       Range(invocations'[j]) \cap InFlight(item') # {}}) <= 1
     /\ Len(invocations') > Len(invocations) => InFlight(item) = {}
     /\ (bStep'.name = "add" /\ InFlight(item) # {} /\ NextAdd \in Adds)
        => /\ item'[NextAdd].st = "queued"
           /\ batchQueue' = Append(batchQueue, NextAdd)
           /\ invocations' = invocations]_vars

\* An add() made while a batch is in flight has filled the queue to maxBatchSize
\* and the items stay queued.
C21_Witness ==
  /\ bStep.name = "add"
  /\ isProcessing
  /\ InFlight(item) # {}
  /\ Len(batchQueue) >= maxBatchSize

\* C22: a flush() call, made in any state and followed by no add(), eventually
\* resolves.
C22_FlushResolves == (flush \in {"awaiting", "looping"}) ~> (flush = "resolved")

\* C23: clear() rejects every queued item with 'Batcher cleared', empties the
\* queue and cancels the timer; it leaves the batch in flight and every other
\* promise as they were, and that batch is still settled by the processor's
\* outcome; no item rejected by clear() is ever handed to the processor.
C23_ClearRejectsQueued ==
  [][/\ bStep'.name = "clear"
        => /\ \A i \in Range(batchQueue) :
                item'[i].st = "rejected" /\ item'[i].error = "Batcher cleared"
           /\ \A i \in Adds \ Range(batchQueue) : item'[i] = item[i]
           /\ batchQueue' = << >>
           /\ timer' = NoTimer
           /\ batch' = batch /\ isProcessing' = isProcessing
     /\ bStep'.name \in {"returns", "rejects"}
        => \A i \in Range(batch) :
             /\ item'[i].st \in {"resolved", "rejected"}
             /\ item'[i].error # "Batcher cleared"
     /\ \A i \in Adds : item'[i].error = "Batcher cleared"
          => \A j \in 1..Len(invocations') : i \notin Range(invocations'[j])]_vars

\* clear() has just rejected a queued item while a batch is in flight, and no
\* timer is left.
C23_Witness ==
  /\ bStep.name = "clear"
  /\ InFlight(item) # {}
  /\ \E i \in Adds : item[i].error = "Batcher cleared"
  /\ timer = NoTimer

\* The queue as processBatch() finds it in the step being taken: the queue
\* before the step, with the new item when the step is an add().
QueueAtTrigger ==
  IF bStep'.name = "add" /\ NextAdd \in Adds THEN Append(batchQueue, NextAdd)
  ELSE batchQueue

\* C32: every processor invocation receives at least 1 and at most maxBatchSize
\* payloads, the oldest queued items in the order they were added; when the
\* processor returns an array as long as the batch, the promise of the item at
\* each place is resolved with the result at that place; and no payload is
\* handed to the processor twice.
C32_BatchShapeAndRouting ==
  [][/\ Len(invocations') > Len(invocations)
        => /\ Len(invocations') = Len(invocations) + 1
           /\ LET b == invocations'[Len(invocations')]
              IN  /\ Len(b) >= 1
                  /\ Len(b) <= maxBatchSize
                  /\ b \o batchQueue' = QueueAtTrigger
                  /\ \A j, k \in 1..Len(b) : j < k => b[j] < b[k]
     /\ (bStep'.name = "returns" /\ Len(bStep'.results) = Len(batch))
        => \A j \in 1..Len(batch) :
             /\ item'[batch[j]].st = "resolved"
             /\ item'[batch[j]].result = bStep'.results[j]
     /\ \A i \in Adds :
          Cardinality({j \in 1..Len(invocations') : i \in Range(invocations'[j])}) <= 1]_vars

\* The promise of add() call i is settled.
Settled(i) == item[i].st \in {"resolved", "rejected"}

\* C33: every promise returned by add() is eventually settled, given that
\* timers and setImmediate callbacks fire and every processor call completes.
C33_EveryPromiseSettles ==
  \A i \in Adds : (item[i].st \in {"queued", "inflight"}) ~> Settled(i)

\* When the item i of the step's queue was added.
AddedAt(i) == IF item[i].st = "none" THEN now ELSE item[i].ts

\* The step calls processBatch() on a batcher that is not busy and whose queue
\* holds fewer than minBatchSize items.
TriggeredBelowMin ==
  /\ bStep'.name \in {"timer", "immediate", "flush"}
  /\ ~isProcessing
  /\ batchQueue # << >>
  /\ Len(batchQueue) < minBatchSize

\* C34: with minBatchSize <= maxBatchSize the processor is invoked on fewer than
\* minBatchSize items only when at least maxWaitTime has passed since the oldest
\* of them was added; a processBatch() that finds fewer than minBatchSize items
\* before that time invokes nothing and arms a timer due when maxWaitTime will
\* have passed since the oldest item was added, and one that finds them at or
\* after that time hands them to the processor.
C34_MinBatchDeferral ==
  [][minBatchSize <= maxBatchSize
       => /\ Len(invocations') > Len(invocations)
             => LET b == invocations'[Len(invocations')]
                IN  Len(b) < minBatchSize => now' - AddedAt(b[1]) >= maxWaitTime
          /\ (TriggeredBelowMin /\ now - item[batchQueue[1]].ts < maxWaitTime)
             => /\ invocations' = invocations
                /\ batchQueue' = batchQueue
                /\ timer'.live
                /\ timer'.due = item[batchQueue[1]].ts + maxWaitTime
          /\ (TriggeredBelowMin /\ now - item[batchQueue[1]].ts >= maxWaitTime)
             => /\ invocations' = Append(invocations, batchQueue)
                /\ batchQueue' = << >>]_vars

\* The setImmediate callback that follows a batch has found one item, added
\* while that batch was in flight, below minBatchSize = 2 and before its
\* maxWaitTime: nothing was invoked and the timer is armed.
C34_Witness ==
  /\ bStep.name = "immediate"
  /\ minBatchSize = 2
  /\ maxBatchSize >= 2
  /\ Len(batchQueue) = 1
  /\ ~isProcessing
  /\ timer.live
  /\ timer.due = item[batchQueue[1]].ts + maxWaitTime
  /\ Len(invocations) = 1

\* C37: whatever the processor does with a batch, an array with an undefined
\* entry included, the promises of that batch are all resolved or all rejected.
C37_NoPartialBatch ==
  \A j \in 1..Len(invocations) :
    LET b == Range(invocations[j])
    IN  \/ \A i \in b : item[i].st # "rejected"
        \/ \A i \in b : item[i].st # "resolved"

\* C38: when the promise of flush() resolves, the promise of every add() made
\* before the flush() call is settled, those of a batch that was in flight at
\* the call included (no add() is made after the flush() call here).
C38_FlushCompleteness ==
  [][(flush # "resolved" /\ flush' = "resolved")
       => \A i \in Adds : item'[i].st \notin {"queued", "inflight"}]_vars

\* ------------------------------------------------------------ retry: claims

\* The number of times fn was invoked.
FnCalls == Cardinality({k \in 1..Len(events) : events[k].ev = "fn"})

\* A thrown error's text carries a message (the empty message is part of any text).
Carries(outcome, message) == message = "" \/ outcome.detail = message

\* C24: once retry(fn, config) has been called, fn has been invoked at least
\* once and at most maxAttempts times; when fn succeeds the call returns at
\* once with success = true and attempts = the number of invocations made;
\* when maxAttempts invocations have failed, the call rejects with an error
\* that reports maxAttempts and carries the last error's message.
C24_AttemptBound ==
  cfg.form = "config"
    => /\ FnCalls >= 1
       /\ FnCalls <= cfg.maxAttempts
       /\ retryPc = "returned"
            => /\ retryOutcome.success
               /\ retryOutcome.attempts = FnCalls
               /\ events[Len(events)].ev = "fn"
       /\ (retryPc = "thrown" /\ FnCalls = cfg.maxAttempts)
            => /\ retryOutcome.kind = "error"
               /\ retryOutcome.count = cfg.maxAttempts
               /\ Carries(retryOutcome, lastError.message)

\* An attempt of retry(fn, config) fails in this step with an error that
\* shouldRetry refuses.
NonRetryableFailure ==
  /\ cfg.form = "config"
  /\ retryPc = "calling"
  /\ lastError' # lastError \/ retryPc' \in {"thrown", "sleeping"}
  /\ retryPc' # "returned"
  /\ ~ShouldRetry(cfg, lastError')

\* C25: when an attempt of retry(fn, config) fails with an error for which
\* shouldRetry returns false, the call ends in that step: fn is not invoked
\* again, no sleep is started, onRetry is not called, and the error thrown to
\* the caller is the underlying error.
C25_NonRetryableAborts ==
  [][NonRetryableFailure
       => /\ retryPc' = "thrown"
          /\ \A k \in (Len(events) + 1)..Len(events') :
               events'[k].ev \notin {"fn", "onRetry", "sleep"}
          /\ retryOutcome' = Rethrown(lastError')]_vars

\* The number of invocations of fn among the first k events.
FnCallsBefore(k) == Cardinality({n \in 1..k : events[n].ev = "fn"})

\* C26: retry(fn, maxRetries, baseDelay) invokes fn at most maxRetries + 1
\* times; a success is returned at once; when the call throws, fn was invoked
\* exactly maxRetries + 1 times, nothing followed the last invocation, and the
\* error is 'Failed after <maxRetries> retries' with the last error's message;
\* every invocation of fn but the first follows a wait, and the wait that
\* follows the i-th invocation lasts baseDelay * 2^(i-1).
C26_PositionalRetry ==
  cfg.form = "positional"
    => /\ FnCalls <= cfg.maxRetries + 1
       /\ retryPc = "returned"
            => /\ retryOutcome.kind = "result"
               /\ events[Len(events)].ev = "fn"
       /\ retryPc = "thrown"
            => /\ FnCalls = cfg.maxRetries + 1
               /\ events[Len(events)].ev = "fn"
               /\ retryOutcome.text = "Failed after"
               /\ retryOutcome.count = cfg.maxRetries
               /\ Carries(retryOutcome, lastError.message)
       /\ \A k \in 1..Len(events) :
            /\ (events[k].ev = "fn" /\ k > 1) => events[k - 1].ev = "sleep"
            /\ events[k].ev = "sleep"
                 => /\ events[k - 1].ev = "fn"
                    /\ events[k].delay = cfg.baseDelay * 2^(FnCallsBefore(k) - 1)

\* Every attempt has failed: three invocations of fn, with waits of 1 and 2 ms
\* between them.
C26_Witness ==
  /\ cfg.form = "positional"
  /\ retryPc = "thrown"
  /\ cfg.maxRetries = 2
  /\ cfg.baseDelay = 1
  /\ FnCalls = 3
  /\ now = 3

\* -------------------------------------------------- retryWithTimeout: claims

\* events has a new call of fn or a new backoff sleep.
StartsCallOrSleep ==
  \E k \in (Len(events) + 1)..Len(events') : events'[k].ev \in {"fn", "sleep"}

\* C40: the timeout wins the race only when timeoutMs has elapsed and retry() has
\* not settled, retry() does not settle after timeoutMs has elapsed while the
\* timeout is still to fire, and what retryWithTimeout settles with is then
\* retry()'s outcome or the 'timed out' error; once the timeout has won, fn is
\* not called again and no backoff sleep is started.
C40_TimeoutCutOff ==
  [][/\ (raceTimer = "live" /\ raceTimer' = "won")
          => /\ ~RetrySettled
             /\ now' >= timeoutAt
             /\ RaceOutcome' = TimedOut(timeoutMs)
     /\ (raceTimer = "live" /\ ~RetrySettled /\ RetrySettled')
          => /\ now' <= timeoutAt
             /\ RaceOutcome' = retryOutcome'
     /\ (RaceOutcome # NoOutcome) => RaceOutcome' = RaceOutcome
     /\ raceTimer = "won" => ~StartsCallOrSleep]_vars

====
